---- MODULE Spec2Model ----
(***************************************************************************)
(* A model of the ircstats statistics package: the URL frequency map       *)
(* (urls.go), the scalar text counters (counters.go) and the Stats root    *)
(* with its entity graph, snapshot save/load and lock proxies.             *)
(*                                                                         *)
(* Strings are sequences of ASCII codes, so that case folding, splitting   *)
(* and pattern matching are computed the way the Go code computes them.    *)
(***************************************************************************)
EXTENDS Integers, Sequences, FiniteSets, TLC

VARIABLES
    u,        \* urls: the map[string]uint of one URL tracker
    urlHist,  \* ghost: the messages handed to urls.addMessage, in order
    top,      \* outcome of a TopURLs(n) call on u as it is now
    other,    \* urls: the map of a second, separate URL tracker
    otherHist, \* ghost: the messages handed to the second tracker, in order
    caps,     \* an AllCapsCount, the message it is fed and the calls so far
    stats,    \* the Stats struct (tables, name index, id counters)
    proc,     \* "running" | "nil" (NewStats returned nil) | "exited" (log.Fatal) | "panicked"
    disk,     \* the file data.db: absent, a valid snapshot, or undecodable
    saved,    \* ghost: the whole Stats as it was at the last successful Save
    last,     \* ghost: the last operation on Stats, its inputs and its result
    hist,     \* ghost: bag of the AddMessage calls made so far
    mut,      \* the sync.RWMutex of Stats: its writer and its readers
    pc,       \* per caller thread: where it is in its bracketed operation
    local,    \* per caller thread: the locals of the AddMessage in progress
    handed    \* ghost: the message ids handed out to finished AddMessage calls

vars == <<u, urlHist, top, other, otherHist, caps, stats, proc, disk, saved, last, hist, mut, pc, local, handed>>

urlVars   == <<u, urlHist, top>>
otherVars == <<other, otherHist>>
capsVars  == <<caps>>
statsVars == <<stats, proc, disk, saved, last, hist>>
lockVars  == <<mut, pc, local, handed>>

----------------------------------------------------------------------------
(* Bounds of the model *)

MaxRec == 3      \* urls.addMessage calls in one behaviour of SpecURL
MaxN == 4        \* largest n passed to TopURLs
MaxSlack == 1    \* spare capacity append may leave behind the list's length

----------------------------------------------------------------------------
(* Strings *)

Min(a, b) == IF a < b THEN a ELSE b

RECURSIVE SumOver(_, _)
SumOver(S, f) ==
    IF S = {} THEN 0
    ELSE LET x == CHOOSE y \in S : TRUE IN f[x] + SumOver(S \ {x}, f)

Range(s) == { s[i] : i \in 1..Len(s) }

\* strings.ToLower on ASCII text
ToLower(s) == [i \in 1..Len(s) |-> IF s[i] \in 65..90 THEN s[i] + 32 ELSE s[i]]

HasPrefix(s, p) == Len(s) >= Len(p) /\ SubSeq(s, 1, Len(p)) = p

HasSuffix(s, p) == Len(s) >= Len(p) /\ SubSeq(s, Len(s) - Len(p) + 1, Len(s)) = p

\* unicode.IsSpace restricted to ASCII: \t \n \v \f \r and the space
IsSpace(c) == c \in {9, 10, 11, 12, 13, 32}

\* strings.Fields: the maximal runs of non-space characters
RECURSIVE FieldsFrom(_, _, _, _)
FieldsFrom(s, i, cur, acc) ==
    IF i > Len(s) THEN (IF cur = <<>> THEN acc ELSE Append(acc, cur))
    ELSE IF IsSpace(s[i])
         THEN FieldsFrom(s, i + 1, <<>>, IF cur = <<>> THEN acc ELSE Append(acc, cur))
         ELSE FieldsFrom(s, i + 1, Append(cur, s[i]), acc)

Fields(s) == FieldsFrom(s, 1, <<>>, <<>>)

\* strings.Split(s, " "): cut at every single space, empty pieces kept
RECURSIVE SplitFrom(_, _, _, _)
SplitFrom(s, i, cur, acc) ==
    IF i > Len(s) THEN Append(acc, cur)
    ELSE IF s[i] = 32
         THEN SplitFrom(s, i + 1, <<>>, Append(acc, cur))
         ELSE SplitFrom(s, i + 1, Append(cur, s[i]), acc)

Split(s) == SplitFrom(s, 1, <<>>, <<>>)

\* strings.Replace(s, " ", "", -1)
RemoveSpaces(s) == SelectSeq(s, LAMBDA c : c # 32)

----------------------------------------------------------------------------
(* counters.go *)

countSuffixChars(message, suffix) ==
    Cardinality({ i \in 1..Len(message) : <<message[i]>> = suffix })

countSuffixes(message, suffix) ==
    LET words == Fields(message)
    IN  Cardinality({ i \in 1..Len(words) : HasSuffix(words[i], suffix) })

NewBasicTextCounters == [Words |-> 0, Letters |-> 0, Lines |-> 0]

BasicAddMessage(c, message) ==
    [Words   |-> c.Words + Len(Fields(message)),
     Letters |-> c.Letters + Len(RemoveSpaces(message)),
     Lines   |-> c.Lines + 1]

ExclamationsAddMessage(e, message) == e + countSuffixes(message, <<33>>)

\* the loop of AllCapsCount.addMessage over message[i..]: "return" when the
\* loop returns early, else whether hasCapitalChar is set after the last rune
RECURSIVE AllCapsScan(_, _, _)
AllCapsScan(message, i, hasCapitalChar) ==
    IF i > Len(message)
    THEN IF hasCapitalChar THEN "capital" ELSE "none"
    ELSE LET c == message[i]
         IN  IF c > 97 /\ c < 122
             THEN "return"
             ELSE AllCapsScan(message, i + 1, hasCapitalChar \/ (c > 65 /\ c < 90))

\* AllCapsCount.addMessage
AllCapsAddMessage(a, message) ==
    IF AllCapsScan(message, 1, FALSE) = "capital" THEN a + 1 ELSE a

MaxCapsLen == 3    \* longest message handed to an AllCapsCount
MaxCapsCalls == 2  \* addMessage calls on one AllCapsCount

\* 'A' 'B' 'Z' 'a' 'b' 'z' '1'
CapsAlphabet == { 65, 66, 90, 97, 98, 122, 49 }

CapsMessages == UNION { [1..n -> CapsAlphabet] : n \in 0..MaxCapsLen }

InitCaps == caps = [count |-> 0, calls |-> 0, msg |-> <<>>]

\* a zero AllCapsCount and any message to feed it
InitCapsAny == caps \in { [count |-> 0, calls |-> 0, msg |-> m] : m \in CapsMessages }

CapsAddMessage ==
    /\ caps.calls < MaxCapsCalls
    /\ caps' = [caps EXCEPT !.count = AllCapsAddMessage(@, caps.msg), !.calls = @ + 1]
    /\ UNCHANGED <<urlVars, otherVars, statsVars, lockVars>>

----------------------------------------------------------------------------
(* urls.go *)

IsLowerAlnum(c) == c \in 97..122 \/ c \in 48..57
IsLowerAlpha(c) == c \in 97..122
IsDigit(c) == c \in 48..57

\* [a-z0-9]+([\-\.]{1}[a-z0-9]+)*  matched against the whole of x
MatchesHost(x) ==
    /\ Len(x) >= 1
    /\ IsLowerAlnum(x[1]) /\ IsLowerAlnum(x[Len(x)])
    /\ \A i \in 1..Len(x) : IsLowerAlnum(x[i]) \/ x[i] \in {45, 46}
    /\ \A i \in 1..(Len(x) - 1) : ~(x[i] \in {45, 46} /\ x[i + 1] \in {45, 46})

\* (\/.*)?$  from position p of w
MatchesPathEnd(w, p) == p = Len(w) + 1 \/ (p <= Len(w) /\ w[p] = 47 /\ 10 \notin Range(w))

\* (:[0-9]{1,5})?(\/.*)?$  from position p of w
MatchesPortPathEnd(w, p) ==
    \/ MatchesPathEnd(w, p)
    \/ /\ p <= Len(w) /\ w[p] = 58
       /\ \E q \in (p + 1)..Min(p + 5, Len(w)) :
            /\ \A i \in (p + 1)..q : IsDigit(w[i])
            /\ MatchesPathEnd(w, q + 1)

\* [a-z0-9]+([\-\.]{1}[a-z0-9]+)*\.[a-z]{2,6}(:[0-9]{1,5})?(\/.*)?$  somewhere in w
MatchesBareDomain(w) ==
    \E i \in 1..Len(w) : \E j \in i..Len(w) :
        /\ MatchesHost(SubSeq(w, i, j))
        /\ j + 1 <= Len(w) /\ w[j + 1] = 46
        /\ \E k \in (j + 3)..Min(j + 7, Len(w)) :
             /\ \A t \in (j + 2)..k : IsLowerAlpha(w[t])
             /\ MatchesPortPathEnd(w, k + 1)

\* ^(http|https):\/\/
MatchesScheme(w) ==
    \/ HasPrefix(w, <<104, 116, 116, 112, 58, 47, 47>>)
    \/ HasPrefix(w, <<104, 116, 116, 112, 115, 58, 47, 47>>)

\* urlRegex.FindStringSubmatch(w) != nil
urlRegexMatches(w) == MatchesScheme(w) \/ MatchesBareDomain(w)

NewURLs == <<>>

urlsGetZero(m, w) == 0

\* u[w] of a Go map: the zero value when w is no key
urlsGet(m, w) == IF w \in DOMAIN m THEN m[w] ELSE 0

urlsPut(m, w, c) == [x \in DOMAIN m \cup {w} |-> IF x = w THEN c ELSE m[x]]

\* the loop of urls.addMessage over words[i..]
RECURSIVE urlsAddWords(_, _, _)
urlsAddWords(m, words, i) ==
    IF i > Len(words) THEN m
    ELSE IF urlRegexMatches(words[i])
         THEN urlsAddWords(urlsPut(m, words[i], urlsGet(m, words[i]) + 1), words, i + 1)
         ELSE urlsAddWords(m, words, i + 1)

urlsAddMessage(m, message) == urlsAddWords(m, Split(message), 1)

NilTopURL == [isNil |-> TRUE, URL |-> <<>>, Count |-> 0]

TopURL(url, count) == [isNil |-> FALSE, URL |-> url, Count |-> count]

LessAscending(a, b) == a.Count < b.Count

\* byCount.Less
Less(a, b) == a.Count > b.Count

\* what sort.Sort guarantees of its result: no later element is Less than an
\* earlier one.  The sort is not stable and the map is ranged over in random
\* order, so every such arrangement of the entries is a possible result.
SortedLists(m) ==
    LET k == Cardinality(DOMAIN m)
        entries == { TopURL(w, m[w]) : w \in DOMAIN m }
    IN  { l \in [1..k -> entries] :
            /\ \A i, j \in 1..k : i # j => l[i] # l[j]
            /\ \A i, j \in 1..k : i < j => ~Less(l[j], l[i]) }

\* list[0:n] of a slice of length Len(list) and capacity cap: it panics
\* when n exceeds the capacity, and reads the nil pointers behind the
\* length when n exceeds only the length.
SliceTo(list, cap, n) ==
    IF n < 0 \/ n > cap
    THEN [status |-> "panic", list |-> <<>>]
    ELSE [status |-> "ok",
          list |-> [i \in 1..n |-> IF i <= Len(list) THEN list[i] ELSE NilTopURL]]

\* the outcomes of u.TopURLs(n); append leaves a capacity of at least the
\* length, how much more is up to the runtime
TopURLs(m, n) ==
    IF Cardinality(DOMAIN m) = 0
    THEN { [status |-> "ok", list |-> <<>>] }
    ELSE { SliceTo(l, cap, n) :
             l \in SortedLists(m),
             cap \in Cardinality(DOMAIN m)..(Cardinality(DOMAIN m) + MaxSlack) }

\* message texts handed to the URL tracker
UrlMessages ==
    { <<97, 46, 105, 111>>,                              \* "a.io"
      <<98, 46, 105, 111, 32, 104, 105>>,                \* "b.io hi"
      <<104, 116, 116, 112, 58, 47, 47, 103>>,           \* "http://g"
      <<97, 46, 105, 111, 32, 32, 97, 46, 105, 111>> }   \* "a.io  a.io"

InitURL ==
    /\ u = NewURLs
    /\ urlHist = <<>>
    /\ top = [called |-> FALSE, n |-> 0, status |-> "ok", list |-> <<>>]

UrlsAddMessage ==
    /\ Len(urlHist) < MaxRec
    /\ \E m \in UrlMessages :
         /\ u' = urlsAddMessage(u, m)
         /\ urlHist' = Append(urlHist, m)
    /\ top' = [called |-> FALSE, n |-> 0, status |-> "ok", list |-> <<>>]
    /\ UNCHANGED <<otherVars, capsVars, statsVars, lockVars>>

MaxOther == 1   \* messages handed to the second tracker in one behaviour

InitOther ==
    /\ other = NewURLs
    /\ otherHist = <<>>

\* addMessage on the second tracker
UrlsAddMessageOther ==
    /\ Len(otherHist) < MaxOther
    /\ \E m \in UrlMessages :
         /\ other' = urlsAddMessage(other, m)
         /\ otherHist' = Append(otherHist, m)
    /\ UNCHANGED <<urlVars, capsVars, statsVars, lockVars>>

CallTopURLs ==
    /\ \E n \in 0..MaxN : \E r \in TopURLs(u, n) :
         top' = [called |-> TRUE, n |-> n, status |-> r.status, list |-> r.list]
    /\ UNCHANGED <<u, urlHist, otherVars, capsVars, statsVars, lockVars>>

----------------------------------------------------------------------------
(* The entity graph.  A Go pointer to a Network, Channel or User is modelled
   by the entity's id: the key under which the Stats table holds it. *)

MapPut(f, k, v) == [x \in DOMAIN f \cup {k} |-> IF x = k THEN v ELSE f[x]]

\* irc.Nick: the part of a hostmask before its first '!' or '@'
Nick(host) ==
    LET cuts == { i \in 1..Len(host) : host[i] \in {33, 64} }
    IN  IF cuts = {} THEN host
        ELSE SubSeq(host, 1, (CHOOSE i \in cuts : \A j \in cuts : i <= j) - 1)

IncForgotten(c) == c

\* the ++ of an id counter
Inc(c) == c + 1

NewCounters == [Basic |-> NewBasicTextCounters, Exclamations |-> 0]

CountersAddMessage(c, message) ==
    [Basic        |-> BasicAddMessage(c.Basic, message),
     Exclamations |-> ExclamationsAddMessage(c.Exclamations, message)]

newChannel(id, nid, name) ==
    [ID |-> id, NetworkID |-> nid, Name |-> name, MessageIDs |-> <<>>,
     Counters |-> NewCounters, Kicks |-> 0, Actions |-> 0]

NewUser(id, nid, nick) ==
    [ID |-> id, NetworkID |-> nid, Nick |-> nick, MessageIDs |-> <<>>,
     Counters |-> NewCounters, ChannelUsers |-> <<>>]

\* Network.addChannel: list the channel's id, index it by case-folded name
NetworkAddChannel(n, c) ==
    [n EXCEPT !.ChannelIDs = Append(@, c.ID),
              !.channels = MapPut(@, ToLower(c.Name), c.ID)]

\* Network.addUser: list the user's id, index it by case-folded nick
NetworkAddUser(n, usr) ==
    [n EXCEPT !.UserIDs = Append(@, usr.ID),
              !.users = MapPut(@, ToLower(usr.Nick), usr.ID)]

\* User.addChannelUser: a fresh counter bundle under the (folded) channel name
UserAddChannelUser(usr, channel) ==
    [usr EXCEPT !.ChannelUsers = MapPut(@, channel, NewCounters)]

\* Channel.addMessage
ChannelAddMessage(c, message) ==
    [c EXCEPT !.MessageIDs = Append(@, message.ID),
              !.Counters = CountersAddMessage(@, message.Message)]

ChannelAddKick(c) == [c EXCEPT !.Kicks = @ + 1]

ChannelAddAction(c) == [c EXCEPT !.Actions = @ + 1]

\* User.addMessage on a ChannelUser
ChannelUserAddMessage(cu, message) == CountersAddMessage(cu, message.Message)

\* User.addMessage on the User itself
UserAddMessage(usr, message) ==
    [usr EXCEPT !.MessageIDs = Append(@, message.ID),
                !.Counters = CountersAddMessage(@, message.Message)]

\* Network.addMessage
NetworkAddMessage(n, message) ==
    [n EXCEPT !.MessageIDs = Append(@, message.ID),
              !.Counters = CountersAddMessage(@, message.Message),
              !.URLCounter = urlsAddMessage(@, message.Message)]

FreshStatsFromZero ==
    [Channels |-> <<>>, Networks |-> <<>>, Users |-> <<>>,
     networkByName |-> <<>>,
     NetworkIDCount |-> 0, MessageIDCount |-> 0,
     ChannelIDCount |-> 0, UserIDCount |-> 0]

\* the Stats literal of NewStats
FreshStats ==
    [Channels |-> <<>>, Networks |-> <<>>, Users |-> <<>>,
     networkByName |-> <<>>,
     NetworkIDCount |-> 1, MessageIDCount |-> 1,
     ChannelIDCount |-> 1, UserIDCount |-> 1]

addNetworkKeyAsGiven(name) == name

\* the key addNetwork files the network under
addNetworkKey(name) == ToLower(name)

addNetwork(s, name) ==
    LET id == s.NetworkIDCount
        n  == [ID |-> id, Name |-> name,
               ChannelIDs |-> <<>>, UserIDs |-> <<>>, MessageIDs |-> <<>>,
               Counters |-> NewCounters, URLCounter |-> NewURLs,
               channels |-> <<>>, users |-> <<>>]
    IN  [s  |-> [s EXCEPT !.NetworkIDCount = Inc(@),
                          !.Networks = MapPut(@, id, n),
                          !.networkByName = MapPut(@, addNetworkKey(name), id)],
         id |-> id]

getNetwork(s, name) ==
    IF ToLower(name) \in DOMAIN s.networkByName
    THEN [s |-> s, id |-> s.networkByName[ToLower(name)]]
    ELSE addNetwork(s, name)

addChannelToFirst(s, nid, name) ==
    LET id == s.ChannelIDCount
        c  == newChannel(id, nid, name)
    IN  [s  |-> [s EXCEPT !.ChannelIDCount = Inc(@),
                          !.Channels = MapPut(@, c.ID, c),
                          !.Networks[1] = NetworkAddChannel(@, c)],
         id |-> id]

addChannel(s, nid, name) ==
    LET id == s.ChannelIDCount
        c  == newChannel(id, nid, name)
    IN  [s  |-> [s EXCEPT !.ChannelIDCount = Inc(@),
                          !.Channels = MapPut(@, c.ID, c),
                          !.Networks[nid] = NetworkAddChannel(@, c)],
         id |-> id]

getChannel(s, nid, name) ==
    IF ToLower(name) \in DOMAIN s.Networks[nid].channels
    THEN [s |-> s, id |-> s.Networks[nid].channels[ToLower(name)]]
    ELSE addChannel(s, nid, name)

addUser(s, nid, nick) ==
    LET id  == s.UserIDCount
        usr == NewUser(id, s.Networks[nid].ID, nick)
    IN  [s  |-> [s EXCEPT !.UserIDCount = Inc(@),
                          !.Users = MapPut(@, id, usr),
                          !.Networks[nid] = NetworkAddUser(@, usr)],
         id |-> id]

getUser(s, nid, nameOrHost) ==
    LET nick == Nick(nameOrHost)
    IN  IF ToLower(nick) \in DOMAIN s.Networks[nid].users
        THEN [s |-> s, id |-> s.Networks[nid].users[ToLower(nick)]]
        ELSE addUser(s, nid, nick)

\* Stats.GetNetwork: the id of the network filed under the name as given,
\* 0 for nil
GetNetwork(s, network) ==
    IF network \in DOMAIN s.networkByName THEN s.networkByName[network] ELSE 0

\* Stats.GetChannel
GetChannel(s, network, channel) ==
    LET n == GetNetwork(s, network)
    IN  IF n # 0
        THEN IF channel \in DOMAIN s.Networks[n].channels
             THEN s.Networks[n].channels[channel] ELSE 0
        ELSE 0

\* Stats.GetUser
GetUser(s, network, nick) ==
    LET n == GetNetwork(s, network)
    IN  IF n # 0
        THEN IF nick \in DOMAIN s.Networks[n].users
             THEN s.Networks[n].users[nick] ELSE 0
        ELSE 0

\* returns the Stats and the key of the ChannelUser within the user
getChannelUser(s, uid, channel) ==
    LET key == ToLower(channel)
    IN  IF key \in DOMAIN s.Users[uid].ChannelUsers
        THEN [s |-> s, key |-> key]
        ELSE [s |-> [s EXCEPT !.Users[uid] = UserAddChannelUser(@, key)], key |-> key]

ApplyToChannelSwapped(s, k, c, message) ==
    LET s1 == [s EXCEPT !.Channels[c] = ChannelAddMessage(@, message)]
    IN  CASE k = "Kick"   -> [s1 EXCEPT !.Channels[c] = ChannelAddAction(@)]
          [] k = "Action" -> [s1 EXCEPT !.Channels[c] = ChannelAddKick(@)]
          [] OTHER        -> s1

\* the channel branch of Stats.addMessage, up to the switch on the kind
ApplyToChannel(s, k, c, message) ==
    LET s1 == [s EXCEPT !.Channels[c] = ChannelAddMessage(@, message)]
    IN  CASE k = "Kick"   -> [s1 EXCEPT !.Channels[c] = ChannelAddKick(@)]
          [] k = "Action" -> [s1 EXCEPT !.Channels[c] = ChannelAddAction(@)]
          [] OTHER        -> s1

ApplyToChannelUserSkipped(s, usr, cu, message) == s

\* the `if cu != nil` of Stats.addMessage; cu is never nil beside a channel
ApplyToChannelUser(s, usr, cu, message) ==
    [s EXCEPT !.Users[usr].ChannelUsers[cu] = ChannelUserAddMessage(@, message)]

\* Stats.addMessage from its second line on, id being the message id read by
\* its first line; c = 0 stands for the nil *Channel.  The time stamp of the
\* message is left out: nothing reads it.
addMessageWithID(s, id, k, n, c, usr, cu, m) ==
    LET message == [ID |-> id, UserID |-> s.Users[usr].ID,
                    ChannelID |-> IF c # 0 THEN s.Channels[c].ID ELSE 0,
                    Message |-> m, Kind |-> k]
        s1 == [s EXCEPT !.MessageIDCount = Inc(@)]
        s2 == IF c # 0
              THEN ApplyToChannelUser(ApplyToChannel(s1, k, c, message), usr, cu, message)
              ELSE s1
        s3 == [s2 EXCEPT !.Networks[n] = NetworkAddMessage(@, message)]
    IN  [s3 EXCEPT !.Users[usr] = UserAddMessage(@, message)]

addMessage(s, k, n, c, usr, cu, m) == addMessageWithID(s, s.MessageIDCount, k, n, c, usr, cu, m)

ResolveChannelAlways(channel) == TRUE

\* the test `channel != ""` of Stats.AddMessage
ResolveChannel(channel) == channel # <<>>

\* Stats.AddMessage up to its call of addMessage: the entities resolved
Resolve(s, network, channel, hostmask) ==
    LET rn == getNetwork(s, network)
        ru == getUser(rn.s, rn.id, hostmask)
        rc == IF ResolveChannel(channel)
              THEN getChannel(ru.s, rn.id, channel)
              ELSE [s |-> ru.s, id |-> 0]
        rcu == IF ResolveChannel(channel)
               THEN getChannelUser(rc.s, ru.id, channel)
               ELSE [s |-> rc.s, key |-> <<>>]
    IN  [s |-> rcu.s, n |-> rn.id, usr |-> ru.id, c |-> rc.id, cu |-> rcu.key]

StatsAddMessage(s, kind, network, channel, hostmask, message) ==
    LET r == Resolve(s, network, channel, hostmask)
    IN  addMessage(r.s, kind, r.n, r.c, r.usr, r.cu, message)

----------------------------------------------------------------------------
(* Snapshot persistence *)

\* what gob encodes of a Network: its exported fields
ExportNetwork(n) ==
    [ID |-> n.ID, Name |-> n.Name, ChannelIDs |-> n.ChannelIDs, UserIDs |-> n.UserIDs,
     MessageIDs |-> n.MessageIDs, Counters |-> n.Counters, URLCounter |-> n.URLCounter]

\* what gob encodes of Stats: the exported tables and counters
Export(s) ==
    [Channels |-> s.Channels,
     Networks |-> [id \in DOMAIN s.Networks |-> ExportNetwork(s.Networks[id])],
     Users |-> s.Users,
     NetworkIDCount |-> s.NetworkIDCount, MessageIDCount |-> s.MessageIDCount,
     ChannelIDCount |-> s.ChannelIDCount, UserIDCount |-> s.UserIDCount]

\* the end of Save: an encode error ends the process in log.Fatal, so the
\* `return false` behind it is never reached
SaveResult(encodeFailed) ==
    IF encodeFailed THEN [proc |-> "exited", ret |-> "none"]
    ELSE [proc |-> "running", ret |-> "true"]

\* data.db after Save, by what the file system did: a failed Create leaves
\* the file alone; a failed first write leaves the file Create truncated;
\* a failure when the deferred gz.Close flushes leaves a truncated stream
SaveFile(s, d, io) ==
    CASE io = "ok"        -> [state |-> "ok", data |-> Export(s)]
      [] io = "createErr" -> d
      [] io = "writeErr"  -> [state |-> "empty", data |-> Export(FreshStats)]
      [] io = "closeErr"  -> [state |-> "truncated", data |-> Export(FreshStats)]

\* Network.buildIndexes: the channel and user indexes, from the tables
NetworkBuildIndexes(s, n) ==
    [ID |-> n.ID, Name |-> n.Name, ChannelIDs |-> n.ChannelIDs, UserIDs |-> n.UserIDs,
     MessageIDs |-> n.MessageIDs, Counters |-> n.Counters, URLCounter |-> n.URLCounter,
     channels |-> [k \in { ToLower(s.Channels[c].Name) : c \in Range(n.ChannelIDs) } |->
                     CHOOSE c \in Range(n.ChannelIDs) : ToLower(s.Channels[c].Name) = k],
     users |-> [k \in { ToLower(s.Users[x].Nick) : x \in Range(n.UserIDs) } |->
                     CHOOSE x \in Range(n.UserIDs) : ToLower(s.Users[x].Nick) = k]]

buildIndexesKeyFolded(n) == ToLower(n.Name)

\* the key buildIndexes files a network under
buildIndexesKey(n) == n.Name

\* Stats.buildIndexes on the decoded value d.  The loop ranges over the
\* Networks map in random order, so of two networks with one key either may
\* be the one the index keeps.
buildIndexes(d) ==
    LET keys == { buildIndexesKey(d.Networks[id]) : id \in DOMAIN d.Networks }
        nets == [id \in DOMAIN d.Networks |-> NetworkBuildIndexes(d, d.Networks[id])]
    IN  { [Channels |-> d.Channels, Networks |-> nets, Users |-> d.Users,
           networkByName |-> idx,
           NetworkIDCount |-> d.NetworkIDCount, MessageIDCount |-> d.MessageIDCount,
           ChannelIDCount |-> d.ChannelIDCount, UserIDCount |-> d.UserIDCount] :
          idx \in { f \in [keys -> DOMAIN d.Networks] :
                      \A k \in keys : buildIndexesKey(d.Networks[f[k]]) = k } }

\* loadDatabase and NewStats: the possible (process state, Stats) outcomes.
\* An Open error other than "not exist" and a stream gob cannot decode make
\* NewStats return nil; of an empty file gzip.NewReader returns a nil reader
\* and its error is dropped, so Decode panics on the nil reader.
NewStats(d, io) ==
    CASE io = "openErr"        -> { [proc |-> "nil", stats |-> FreshStats] }
      [] d.state = "absent"    -> { [proc |-> "running", stats |-> FreshStats] }
      [] d.state = "empty"     -> { [proc |-> "panicked", stats |-> FreshStats] }
      [] d.state = "truncated" -> { [proc |-> "nil", stats |-> FreshStats] }
      [] d.state = "ok"        -> { [proc |-> "running", stats |-> s] : s \in buildIndexes(d.data) }

----------------------------------------------------------------------------
(* Inputs *)

MaxMsgs == 3       \* AddMessage calls in one behaviour of SpecNames and SpecText
MaxStatsMsgs == 3  \* largest message id handed out in Spec

NetNames == { <<70, 110>>, <<102, 110>>, <<101, 102>> }            \* "Fn" "fn" "ef"
ChanNames == { <<>>, <<35, 99>>, <<35, 67>> }                      \* "" "#c" "#C"
Hosts == { <<97, 108, 33, 120>>, <<65, 108, 33, 120>>, <<98, 111>> }  \* "al!x" "Al!x" "bo"
Texts == { <<109, 49>>, <<109, 50>>, <<109, 51, 32, 33, 33>> }     \* "m1" "m2" "m3 !!"

NoCall == [op |-> "NewStats", kind |-> "", network |-> <<>>, channel |-> <<>>,
           hostmask |-> <<>>, message |-> <<>>, io |-> "ok", ret |-> "none"]

Call(kind, network, channel, hostmask, message) ==
    [kind |-> kind, network |-> network, channel |-> channel,
     hostmask |-> hostmask, message |-> message]

BagAdd(b, x) == IF x \in DOMAIN b THEN [b EXCEPT ![x] = @ + 1] ELSE MapPut(b, x, 1)

----------------------------------------------------------------------------
(* Operations on Stats *)

InitStats ==
    /\ stats = FreshStats
    /\ proc = "running"
    /\ disk = [state |-> "absent", data |-> Export(FreshStats)]
    /\ saved = FreshStats
    /\ last = [NoCall EXCEPT !.op = "none"]
    /\ hist = <<>>

DoAddMessage(kind, network, channel, hostmask, message) ==
    /\ proc = "running"
    /\ stats' = StatsAddMessage(stats, kind, network, channel, hostmask, message)
    /\ last' = [op |-> "AddMessage", kind |-> kind, network |-> network,
                channel |-> channel, hostmask |-> hostmask, message |-> message,
                io |-> "ok", ret |-> "none"]
    /\ UNCHANGED <<proc, disk, saved>>

\* AddMessage with the names varying in letter case
AddMessageNames ==
    /\ stats.MessageIDCount <= MaxMsgs
    /\ \E network \in NetNames, channel \in ChanNames, hostmask \in Hosts :
         /\ DoAddMessage("Message", network, channel, hostmask, <<109, 49>>)
         /\ hist' = BagAdd(hist, Call("Message", network, channel, hostmask, <<109, 49>>))
    /\ UNCHANGED <<urlVars, otherVars, capsVars, lockVars>>

Kinds == { "Message", "Kick", "Action" }

KindChannels == { <<>>, <<35, 99>>, <<35, 67>>, <<35, 100>> }      \* "" "#c" "#C" "#d"

\* AddMessage with the kind varying, on one network from one user
AddMessageKinds ==
    /\ stats.MessageIDCount <= MaxMsgs
    /\ \E kind \in Kinds, channel \in KindChannels :
         /\ DoAddMessage(kind, <<102, 110>>, channel, <<97, 108, 33, 120>>, <<109, 49>>)
         /\ hist' = BagAdd(hist, Call(kind, <<102, 110>>, channel, <<97, 108, 33, 120>>, <<109, 49>>))
    /\ UNCHANGED <<urlVars, otherVars, capsVars, lockVars>>

\* AddMessage with the text varying, on one network
AddMessageText ==
    /\ stats.MessageIDCount <= MaxMsgs
    /\ \E channel \in ChanNames, hostmask \in { <<97, 108, 33, 120>>, <<98, 111>> },
          message \in Texts :
         /\ DoAddMessage("Message", <<102, 110>>, channel, hostmask, message)
         /\ hist' = BagAdd(hist, Call("Message", <<102, 110>>, channel, hostmask, message))
    /\ UNCHANGED <<urlVars, otherVars, capsVars, lockVars>>

\* AddMessage in a process that also saves and restarts
AddMessage ==
    /\ stats.MessageIDCount <= MaxStatsMsgs
    /\ \E network \in { <<70, 110>>, <<102, 110>> }, channel \in { <<>>, <<35, 99>> } :
         DoAddMessage("Message", network, channel, <<97, 108, 33, 120>>, <<109, 49>>)
    /\ UNCHANGED <<hist, urlVars, otherVars, capsVars, lockVars>>

Save ==
    /\ proc = "running"
    /\ \E io \in {"ok", "createErr", "writeErr", "closeErr"} :
         LET r == SaveResult(io \in {"createErr", "writeErr"})
         IN  /\ disk' = SaveFile(stats, disk, io)
             /\ proc' = r.proc
             /\ saved' = IF io = "ok" THEN stats ELSE saved
             /\ last' = [NoCall EXCEPT !.op = "Save", !.io = io, !.ret = r.ret]
    /\ UNCHANGED <<stats, hist, urlVars, otherVars, capsVars, lockVars>>

\* the process starts (again): NewStats
Load ==
    /\ \E io \in {"ok", "openErr"} : \E r \in NewStats(disk, io) :
         /\ stats' = r.stats
         /\ proc' = r.proc
         /\ last' = [NoCall EXCEPT !.op = "NewStats", !.io = io]
    /\ UNCHANGED <<disk, saved, hist, urlVars, otherVars, capsVars, lockVars>>

----------------------------------------------------------------------------
(* Callers that bracket their operations with the lock proxies *)

NumThreads == 2    \* caller threads
MaxLockMsgs == 2   \* AddMessage calls started in one behaviour of SpecLock

Threads == 1..NumThreads

InitLock ==
    /\ mut = [writer |-> 0, readers |-> {}]
    /\ pc = [t \in Threads |-> "idle"]
    /\ local = [t \in Threads |-> [id |-> 0, kind |-> "", n |-> 0, c |-> 0, usr |-> 0,
                                   cu |-> <<>>, message |-> <<>>]]
    /\ handed = <<>>

CanLockAlways(m) == TRUE

\* sync.RWMutex.Lock returns once no writer and no reader holds the mutex
CanLock(m) == m.writer = 0 /\ m.readers = {}

\* sync.RWMutex.RLock returns once no writer holds the mutex
CanRLock(m) == m.writer = 0

Lock(t) ==
    /\ pc[t] = "idle"
    /\ CanLock(mut)
    /\ mut' = [mut EXCEPT !.writer = t]
    /\ pc' = [pc EXCEPT ![t] = "locked"]
    /\ UNCHANGED <<local, handed, statsVars, urlVars, otherVars, capsVars>>

Unlock(t) ==
    /\ pc[t] = "locked"
    /\ mut' = [mut EXCEPT !.writer = 0]
    /\ pc' = [pc EXCEPT ![t] = "idle"]
    /\ UNCHANGED <<local, handed, statsVars, urlVars, otherVars, capsVars>>

RLock(t) ==
    /\ pc[t] = "idle"
    /\ CanRLock(mut)
    /\ mut' = [mut EXCEPT !.readers = @ \cup {t}]
    /\ pc' = [pc EXCEPT ![t] = "rlocked"]
    /\ UNCHANGED <<local, handed, statsVars, urlVars, otherVars, capsVars>>

RUnlock(t) ==
    /\ pc[t] = "rlocked"
    /\ mut' = [mut EXCEPT !.readers = @ \ {t}]
    /\ pc' = [pc EXCEPT ![t] = "idle"]
    /\ UNCHANGED <<local, handed, statsVars, urlVars, otherVars, capsVars>>

\* AddMessage up to and including the first line of addMessage, which reads
\* the message id
AddMessageBegin(t) ==
    /\ pc[t] = "locked"
    /\ proc = "running"
    /\ stats.MessageIDCount + Cardinality({ x \in Threads : pc[x] = "adding" }) <= MaxLockMsgs
    /\ \E channel \in { <<>>, <<35, 99>> }, message \in { <<109, 49>>, <<109, 51, 32, 33, 33>> } :
         LET r == Resolve(stats, <<102, 110>>, channel, <<97, 108, 33, 120>>)
         IN  /\ stats' = r.s
             /\ local' = [local EXCEPT ![t] =
                            [id |-> r.s.MessageIDCount, kind |-> "Message", n |-> r.n,
                             c |-> r.c, usr |-> r.usr, cu |-> r.cu, message |-> message]]
             /\ last' = [op |-> "AddMessage", kind |-> "Message", network |-> <<102, 110>>,
                         channel |-> channel, hostmask |-> <<97, 108, 33, 120>>,
                         message |-> message, io |-> "ok", ret |-> "none"]
    /\ pc' = [pc EXCEPT ![t] = "adding"]
    /\ UNCHANGED <<mut, handed, proc, disk, saved, hist, urlVars, otherVars, capsVars>>

\* the rest of addMessage
AddMessageEnd(t) ==
    /\ pc[t] = "adding"
    /\ stats' = addMessageWithID(stats, local[t].id, local[t].kind, local[t].n, local[t].c,
                                 local[t].usr, local[t].cu, local[t].message)
    /\ handed' = Append(handed, [t |-> t, id |-> local[t].id])
    /\ pc' = [pc EXCEPT ![t] = "locked"]
    /\ UNCHANGED <<mut, local, proc, disk, saved, last, hist, urlVars, otherVars, capsVars>>

\* Save by a caller holding the lock
SaveLocked(t) ==
    /\ pc[t] = "locked"
    /\ proc = "running"
    /\ disk' = SaveFile(stats, disk, "ok")
    /\ saved' = stats
    /\ last' = [NoCall EXCEPT !.op = "Save", !.ret = SaveResult(FALSE).ret]
    /\ UNCHANGED <<stats, proc, hist, mut, pc, local, handed, urlVars, otherVars, capsVars>>

\* GetNetwork by a caller holding the read lock
Query(t) ==
    /\ pc[t] = "rlocked"
    /\ last' = [NoCall EXCEPT !.op = "GetNetwork", !.network = <<102, 110>>,
                              !.ret = IF <<102, 110>> \in DOMAIN stats.networkByName
                                      THEN "found" ELSE "nil"]
    /\ UNCHANGED <<stats, proc, disk, saved, hist, mut, pc, local, handed, urlVars, otherVars, capsVars>>

----------------------------------------------------------------------------
(* Specifications *)

Init == InitURL /\ InitOther /\ InitCaps /\ InitStats /\ InitLock

\* as Init, with any message for the AllCapsCount
InitAnyCaps == InitURL /\ InitOther /\ InitCapsAny /\ InitStats /\ InitLock

NextURL == UrlsAddMessage \/ CallTopURLs

NextTrackers == UrlsAddMessage \/ UrlsAddMessageOther

NextCaps == CapsAddMessage

NextKinds == AddMessageKinds

NextNames == AddMessageNames

NextText == AddMessageText

Next == AddMessage \/ Save \/ Load

NextLock ==
    \E t \in Threads :
        \/ Lock(t) \/ Unlock(t) \/ RLock(t) \/ RUnlock(t)
        \/ AddMessageBegin(t) \/ AddMessageEnd(t) \/ SaveLocked(t) \/ Query(t)

\* one process: ingestion, snapshots and restarts
Spec == Init /\ [][Next]_vars

\* one URL tracker
SpecURL == Init /\ [][NextURL]_vars

\* two URL trackers fed side by side
SpecTrackers == Init /\ [][NextTrackers]_vars

\* one AllCapsCount fed one message repeatedly
SpecCaps == InitAnyCaps /\ [][NextCaps]_vars

\* ingestion alone, kinds varying
SpecKinds == Init /\ [][NextKinds]_vars

\* ingestion alone, names varying
SpecNames == Init /\ [][NextNames]_vars

\* ingestion alone, texts varying
SpecText == Init /\ [][NextText]_vars

\* concurrent callers
SpecLock == Init /\ [][NextLock]_vars

----------------------------------------------------------------------------
(* Claims about the URL tracker *)

\* the times token w stands between spaces (or the ends) in message m
Occurrences(m, w) ==
    Cardinality({ i \in 1..Len(m) :
        /\ i + Len(w) - 1 <= Len(m)
        /\ SubSeq(m, i, i + Len(w) - 1) = w
        /\ (i = 1 \/ m[i - 1] = 32)
        /\ (i + Len(w) > Len(m) \/ m[i + Len(w)] = 32) })

\* the times token w was recorded, over the messages handed to the tracker
TrueCount(w) == SumOver(1..Len(urlHist), [k \in 1..Len(urlHist) |-> Occurrences(urlHist[k], w)])

\* the URL tokens that were recorded at least once
RecordedTokens ==
    { w \in UNION { Range(Split(urlHist[k])) : k \in 1..Len(urlHist) } : urlRegexMatches(w) }

RealEntries == { i \in 1..Len(top.list) : ~top.list[i].isNil }

ReturnedCountsTrue ==
    /\ \A i \in RealEntries : top.list[i].Count = TrueCount(top.list[i].URL)
    /\ \A w \in RecordedTokens \ { top.list[i].URL : i \in RealEntries } :
         \A i \in RealEntries : TrueCount(w) <= top.list[i].Count

\* C1 as stated: whenever TopURLs(n) returns, its entries are sorted strictly
\* descending by count, each returned count is the number of times the token
\* was recorded, and no token left out has a higher count than a returned one.
C1_TopStrictlyDescending ==
    (top.called /\ top.status = "ok") =>
        /\ \A i, j \in RealEntries : i < j => top.list[i].Count > top.list[j].Count
        /\ ReturnedCountsTrue

\* C1 amended: whenever TopURLs(n) returns, the entries it returns are in
\* non-increasing order of count (tokens of equal count in either order),
\* each returned count is the number of times the token was recorded, and no
\* token left out has a higher count than a returned one.
C1_TopDescending ==
    (top.called /\ top.status = "ok") =>
        /\ \A i, j \in RealEntries : i < j => top.list[i].Count >= top.list[j].Count
        /\ ReturnedCountsTrue

\* TopURLs returned three entries, the first above two of equal count
C1_Witness ==
    /\ top.called /\ top.status = "ok"
    /\ Len(top.list) = 3 /\ RealEntries = 1..3
    /\ top.list[1].Count > top.list[2].Count
    /\ top.list[2].Count = top.list[3].Count

\* C2: for every tracker state and n >= 0, TopURLs(n) returns exactly
\* min(n, number of distinct tokens) entries, each a real (token, count) pair
\* of the map, and never fails.
C2_TopClamps ==
    top.called =>
        /\ top.status = "ok"
        /\ Len(top.list) = Min(top.n, Cardinality(DOMAIN u))
        /\ \A i \in 1..Len(top.list) :
             /\ ~top.list[i].isNil
             /\ top.list[i].URL \in DOMAIN u
             /\ top.list[i].Count = u[top.list[i].URL]

----------------------------------------------------------------------------
(* Claims about get-or-create resolution *)

Calls == DOMAIN hist

FoldedNetworks == { ToLower(c.network) : c \in Calls }

FoldedChannels ==
    { <<ToLower(c.network), ToLower(c.channel)>> : c \in { x \in Calls : x.channel # <<>> } }

FoldedNicks == { <<ToLower(c.network), ToLower(Nick(c.hostmask))>> : c \in Calls }

\* the networks, and the channels and users of network id, a name folds to
NetworksNamed(name) ==
    { id \in DOMAIN stats.Networks : ToLower(stats.Networks[id].Name) = ToLower(name) }

ChannelsNamed(nid, name) ==
    { id \in DOMAIN stats.Channels :
        stats.Channels[id].NetworkID = nid /\ ToLower(stats.Channels[id].Name) = ToLower(name) }

UsersNamed(nid, nick) ==
    { id \in DOMAIN stats.Users :
        stats.Users[id].NetworkID = nid /\ ToLower(stats.Users[id].Nick) = ToLower(nick) }

\* C3: after any sequence of AddMessage calls, every network name that was
\* used, in whatever letter case, belongs to exactly one Network, every channel
\* name and nick used on it to exactly one Channel and User of that network,
\* and each id counter has advanced once per distinct case-folded name.
C3_CaseInsensitive ==
    /\ \A c \in Calls :
         /\ Cardinality(NetworksNamed(c.network)) = 1
         /\ \A nid \in NetworksNamed(c.network) :
              /\ Cardinality(UsersNamed(nid, Nick(c.hostmask))) = 1
              /\ c.channel # <<>> => Cardinality(ChannelsNamed(nid, c.channel)) = 1
    /\ \A i, j \in DOMAIN stats.Networks :
         i # j => ToLower(stats.Networks[i].Name) # ToLower(stats.Networks[j].Name)
    /\ \A i, j \in DOMAIN stats.Channels :
         (i # j /\ stats.Channels[i].NetworkID = stats.Channels[j].NetworkID)
            => ToLower(stats.Channels[i].Name) # ToLower(stats.Channels[j].Name)
    /\ \A i, j \in DOMAIN stats.Users :
         (i # j /\ stats.Users[i].NetworkID = stats.Users[j].NetworkID)
            => ToLower(stats.Users[i].Nick) # ToLower(stats.Users[j].Nick)
    /\ stats.NetworkIDCount = 1 + Cardinality(FoldedNetworks)
    /\ stats.ChannelIDCount = 1 + Cardinality(FoldedChannels)
    /\ stats.UserIDCount = 1 + Cardinality(FoldedNicks)

\* two calls named one network, one channel and one nick in different case
C3_Witness ==
    \E c1, c2 \in Calls :
        /\ c1.network # c2.network /\ ToLower(c1.network) = ToLower(c2.network)
        /\ c1.channel # c2.channel /\ ToLower(c1.channel) = ToLower(c2.channel)
        /\ c1.hostmask # c2.hostmask
        /\ ToLower(Nick(c1.hostmask)) = ToLower(Nick(c2.hostmask))
        /\ stats.NetworkIDCount = 2 /\ stats.ChannelIDCount = 2 /\ stats.UserIDCount = 2

----------------------------------------------------------------------------
(* Claims about the snapshot round trip and the ids *)

\* C4: a Load that follows a Save yields the Stats that was saved, tables,
\* counters and name index alike, and so a network already known is never
\* created a second time.
C4_RoundTrip ==
    /\ (last.op = "NewStats" /\ last.io = "ok" /\ disk.state = "ok") => stats = saved
    /\ \A i, j \in DOMAIN stats.Networks :
         i # j => ToLower(stats.Networks[i].Name) # ToLower(stats.Networks[j].Name)

\* the message ids on the lists of the networks, channels and users
ListedMessageIDs ==
    UNION ( { Range(stats.Networks[i].MessageIDs) : i \in DOMAIN stats.Networks }
            \cup { Range(stats.Channels[i].MessageIDs) : i \in DOMAIN stats.Channels }
            \cup { Range(stats.Users[i].MessageIDs) : i \in DOMAIN stats.Users } )

NoDuplicates(seq) == \A i, j \in 1..Len(seq) : i # j => seq[i] # seq[j]

IdsWellFormed ==
    /\ stats.NetworkIDCount >= 1 /\ stats.ChannelIDCount >= 1
    /\ stats.UserIDCount >= 1 /\ stats.MessageIDCount >= 1
    /\ \A id \in DOMAIN stats.Networks :
         id < stats.NetworkIDCount /\ stats.Networks[id].ID = id
    /\ \A id \in DOMAIN stats.Channels :
         id < stats.ChannelIDCount /\ stats.Channels[id].ID = id
    /\ \A id \in DOMAIN stats.Users :
         id < stats.UserIDCount /\ stats.Users[id].ID = id
    /\ \A id \in ListedMessageIDs : id < stats.MessageIDCount
    /\ \A i \in DOMAIN stats.Networks : NoDuplicates(stats.Networks[i].MessageIDs)
    /\ \A i, j \in DOMAIN stats.Networks :
         i # j => Range(stats.Networks[i].MessageIDs) \cap Range(stats.Networks[j].MessageIDs) = {}

\* a step of one process: counters do not decrease, an id stays with its entity
IdsKept ==
    /\ stats'.NetworkIDCount >= stats.NetworkIDCount
    /\ stats'.ChannelIDCount >= stats.ChannelIDCount
    /\ stats'.UserIDCount >= stats.UserIDCount
    /\ stats'.MessageIDCount >= stats.MessageIDCount
    /\ \A id \in DOMAIN stats.Networks :
         id \in DOMAIN stats'.Networks /\ stats'.Networks[id].Name = stats.Networks[id].Name
    /\ \A id \in DOMAIN stats.Channels :
         /\ id \in DOMAIN stats'.Channels
         /\ stats'.Channels[id].Name = stats.Channels[id].Name
         /\ stats'.Channels[id].NetworkID = stats.Channels[id].NetworkID
    /\ \A id \in DOMAIN stats.Users :
         /\ id \in DOMAIN stats'.Users
         /\ stats'.Users[id].Nick = stats.Users[id].Nick
         /\ stats'.Users[id].NetworkID = stats.Users[id].NetworkID
    /\ ListedMessageIDs \subseteq 1..(stats.MessageIDCount - 1)

CountersAtOne(s) ==
    /\ s.NetworkIDCount = 1 /\ s.ChannelIDCount = 1
    /\ s.UserIDCount = 1 /\ s.MessageIDCount = 1

\* C6: the four id counters are 1 in a Stats made without a snapshot; in
\* every state each counter is above every id in use for its kind, each table
\* key is the id stored in its entity, and no message id is listed twice by a
\* network or by two networks; and no step of a running process (AddMessage,
\* Save) lowers a counter or gives an id in use to another entity.  A restart
\* (NewStats) begins a new process from the snapshot, whose ids are again
\* well-formed.
C6_IdsUnique ==
    /\ CountersAtOne(stats)
    /\ []IdsWellFormed
    /\ [][ /\ last'.op # "NewStats" => IdsKept
           /\ (last'.op = "NewStats" /\ proc' = "running" /\ disk.state = "absent")
                 => CountersAtOne(stats') ]_vars

\* a restarted process, loaded from a snapshot, has handed out further ids
C6_Witness ==
    /\ last.op = "AddMessage" /\ disk.state = "ok"
    /\ stats.MessageIDCount > saved.MessageIDCount
    /\ stats.NetworkIDCount > saved.NetworkIDCount
    /\ stats.networkByName # saved.networkByName
    /\ Cardinality(DOMAIN stats.Channels) >= 1

----------------------------------------------------------------------------
(* Claims about ingestion *)

\* the network, and the user on it, that the call `last` names
LastNetwork(s) ==
    CHOOSE id \in DOMAIN s.Networks : ToLower(s.Networks[id].Name) = ToLower(last'.network)

LastUser(s) ==
    CHOOSE id \in DOMAIN s.Users :
        /\ s.Users[id].NetworkID = LastNetwork(s)
        /\ ToLower(s.Users[id].Nick) = ToLower(Nick(last'.hostmask))

MessageIDsBefore(table, id) == IF id \in DOMAIN table THEN table[id].MessageIDs ELSE <<>>

LinesBefore(table, id) == IF id \in DOMAIN table THEN table[id].Counters.Basic.Lines ELSE 0

\* C5: an AddMessage with an empty channel name takes one message id and puts
\* it on the lists of its network and its user, whose line counts go up by
\* one, and leaves the Channels table, ChannelIDCount and the ChannelUsers of
\* every user as they were; a user it creates has no ChannelUser.
C5_EmptyChannelFrame ==
    [][ (last'.op = "AddMessage" /\ last'.channel = <<>>) =>
          /\ stats'.MessageIDCount = stats.MessageIDCount + 1
          /\ stats'.Channels = stats.Channels
          /\ stats'.ChannelIDCount = stats.ChannelIDCount
          /\ \A id \in DOMAIN stats'.Users :
               stats'.Users[id].ChannelUsers =
                   IF id \in DOMAIN stats.Users THEN stats.Users[id].ChannelUsers ELSE <<>>
          /\ \A id \in DOMAIN stats'.Networks :
               /\ stats'.Networks[id].ChannelIDs =
                   IF id \in DOMAIN stats.Networks THEN stats.Networks[id].ChannelIDs ELSE <<>>
               /\ stats'.Networks[id].channels =
                   IF id \in DOMAIN stats.Networks THEN stats.Networks[id].channels ELSE <<>>
          /\ LET n == LastNetwork(stats')
                 usr == LastUser(stats')
             IN  /\ stats'.Networks[n].MessageIDs =
                       Append(MessageIDsBefore(stats.Networks, n), stats.MessageIDCount)
                 /\ stats'.Networks[n].Counters.Basic.Lines = LinesBefore(stats.Networks, n) + 1
                 /\ stats'.Users[usr].MessageIDs =
                       Append(MessageIDsBefore(stats.Users, usr), stats.MessageIDCount)
                 /\ stats'.Users[usr].Counters.Basic.Lines = LinesBefore(stats.Users, usr) + 1
      ]_vars

\* a message without a channel came from a user who has a ChannelUser, on a
\* network that has a channel with messages
C5_Witness ==
    /\ last.op = "AddMessage" /\ last.channel = <<>>
    /\ \E c \in DOMAIN stats.Channels :
         /\ stats.Channels[c].MessageIDs # <<>>
         /\ ToLower(stats.Networks[stats.Channels[c].NetworkID].Name) = ToLower(last.network)
    /\ \E x \in DOMAIN stats.Users :
         /\ ToLower(stats.Users[x].Nick) = ToLower(Nick(last.hostmask))
         /\ stats.Users[x].ChannelUsers # <<>>
         /\ Len(stats.Users[x].MessageIDs) >= 2

\* the calls of the history that satisfy P, each counted as often as made
CallsWhere(P(_)) == SumOver({ c \in Calls : P(c) }, hist)

\* the words of message m that end in '!': the '!' followed by a space or by
\* the end of the message
BangWords(m) == Cardinality({ i \in 1..Len(m) : m[i] = 33 /\ (i = Len(m) \/ IsSpace(m[i + 1])) })

BangsWhere(P(_)) ==
    SumOver({ c \in Calls : P(c) }, [c \in Calls |-> hist[c] * BangWords(c.message)])

\* the three messages of the scenario: "m1" without channel, "m2" and
\* "m3 !!" in "#c", all from "al!x" on "fn"
Scenario ==
    LET call(channel, message) ==
            Call("Message", <<102, 110>>, channel, <<97, 108, 33, 120>>, message)
    IN  /\ Calls = { call(<<>>, <<109, 49>>), call(<<35, 99>>, <<109, 50>>),
                     call(<<35, 99>>, <<109, 51, 32, 33, 33>>) }
        /\ \A c \in Calls : hist[c] = 1

\* C7: after any sequence of AddMessage calls a Network lists as many
\* messages as calls named it, a User as many as calls came from its nick on
\* its network, a Channel as many as calls named it; a Channel's exclamation
\* count is the number of words ending in "!" in its messages; and after the
\* three messages of the scenario the channel counts 2 messages and 1
\* exclamation, the network 3 messages and the user 3.
C7_CountsAddUp ==
    /\ \A id \in DOMAIN stats.Networks :
         LET named(c) == ToLower(c.network) = ToLower(stats.Networks[id].Name)
         IN  /\ Len(stats.Networks[id].MessageIDs) = CallsWhere(named)
             /\ stats.Networks[id].Counters.Basic.Lines = CallsWhere(named)
    /\ \A id \in DOMAIN stats.Users :
         LET from(c) ==
                /\ ToLower(c.network) = ToLower(stats.Networks[stats.Users[id].NetworkID].Name)
                /\ ToLower(Nick(c.hostmask)) = ToLower(stats.Users[id].Nick)
         IN  /\ Len(stats.Users[id].MessageIDs) = CallsWhere(from)
             /\ stats.Users[id].Counters.Basic.Lines = CallsWhere(from)
    /\ \A id \in DOMAIN stats.Channels :
         LET in(c) ==
                /\ ToLower(c.network) = ToLower(stats.Networks[stats.Channels[id].NetworkID].Name)
                /\ c.channel # <<>>
                /\ ToLower(c.channel) = ToLower(stats.Channels[id].Name)
         IN  /\ Len(stats.Channels[id].MessageIDs) = CallsWhere(in)
             /\ stats.Channels[id].Counters.Basic.Lines = CallsWhere(in)
             /\ stats.Channels[id].Counters.Exclamations = BangsWhere(in)
    /\ Scenario =>
         /\ Len(stats.Channels[1].MessageIDs) = 2
         /\ stats.Channels[1].Counters.Exclamations = 1
         /\ Len(stats.Networks[1].MessageIDs) = 3
         /\ Len(stats.Users[1].MessageIDs) = 3

\* the three messages of the scenario have been added
C7_Witness == Scenario /\ stats.MessageIDCount = 4

\* the ChannelUser word counts for channel id, over the users of its network
ChannelUserWords(id) ==
    LET key == ToLower(stats.Channels[id].Name)
        users == { x \in DOMAIN stats.Users :
                     /\ stats.Users[x].NetworkID = stats.Channels[id].NetworkID
                     /\ key \in DOMAIN stats.Users[x].ChannelUsers }
    IN  SumOver(users, [x \in users |-> stats.Users[x].ChannelUsers[key].Basic.Words])

\* C8: after any sequence of AddMessage calls each Channel's word count is
\* the sum of the word counts of its ChannelUsers over the users of its network.
C8_ChannelWordsSum ==
    \A id \in DOMAIN stats.Channels :
        stats.Channels[id].Counters.Basic.Words = ChannelUserWords(id)

\* two users have written in one channel, one of them two words in a message
C8_Witness ==
    \E id \in DOMAIN stats.Channels :
        /\ stats.Channels[id].Counters.Basic.Words >= 3
        /\ \E x, y \in DOMAIN stats.Users :
             /\ x # y
             /\ ToLower(stats.Channels[id].Name) \in DOMAIN stats.Users[x].ChannelUsers
             /\ ToLower(stats.Channels[id].Name) \in DOMAIN stats.Users[y].ChannelUsers
             /\ stats.Users[x].ChannelUsers[ToLower(stats.Channels[id].Name)].Basic.Words >= 2
             /\ stats.Users[y].ChannelUsers[ToLower(stats.Channels[id].Name)].Basic.Words >= 1

----------------------------------------------------------------------------
(* Claims about locking and about failed saves *)

Writing == { t \in Threads : pc[t] \in {"locked", "adding"} }

\* C9: with every AddMessage and Save inside Lock/Unlock and every query
\* inside RLock/RUnlock, at most one caller is in a write operation, no
\* caller reads while one is, the message ids handed out are all different,
\* and between write operations the message counter and the network's message
\* list account for every AddMessage made.
C9_LockSerializes ==
    /\ Cardinality(Writing) <= 1
    /\ Writing # {} => \A t \in Threads : pc[t] # "rlocked"
    /\ \A i, j \in 1..Len(handed) : i # j => handed[i].id # handed[j].id
    /\ \A t \in Threads : pc[t] = "adding" =>
         \A i \in 1..Len(handed) : handed[i].id # local[t].id
    /\ (\A t \in Threads : pc[t] # "adding") =>
         /\ stats.MessageIDCount = 1 + Len(handed)
         /\ \A n \in DOMAIN stats.Networks :
              /\ stats.Networks[n].MessageIDs = [i \in 1..Len(handed) |-> handed[i].id]
              /\ stats.Networks[n].Counters.Basic.Lines = Len(handed)

\* two callers have each added a message, and one now holds the read lock
C9_Witness ==
    /\ \E i, j \in 1..Len(handed) : handed[i].t # handed[j].t
    /\ \E t \in Threads : pc[t] = "rlocked"

\* C10: a Save that fails returns false and leaves the Stats in memory
\* unchanged and usable by further AddMessage and Save calls.
C10_FailedSaveReported ==
    [][ (last'.op = "Save" /\ last'.io # "ok") =>
          /\ last'.ret = "false"
          /\ proc' = "running"
          /\ stats' = stats ]_vars

----------------------------------------------------------------------------
(* Claims about starting without, or with an undecodable, snapshot *)

\* C11: when data.db does not exist, NewStats is no error: the process runs
\* on a Stats whose Networks, Channels and Users tables and name index are
\* empty and whose four id counters are 1.  The first start of a behaviour
\* (no operation yet) is such a start.
C11_ColdStart ==
    (/\ last.op \in {"none", "NewStats"}
     /\ last.io = "ok"
     /\ disk.state = "absent") =>
        /\ proc = "running"
        /\ DOMAIN stats.Networks = {} /\ DOMAIN stats.Channels = {}
        /\ DOMAIN stats.Users = {} /\ DOMAIN stats.networkByName = {}
        /\ stats.NetworkIDCount = 1 /\ stats.MessageIDCount = 1
        /\ stats.ChannelIDCount = 1 /\ stats.UserIDCount = 1

\* the process was started again while there was still no snapshot
C11_Witness ==
    /\ last.op = "NewStats" /\ last.io = "ok"
    /\ disk.state = "absent"
    /\ proc = "running"

\* C16 as stated: when data.db exists but cannot be decoded, NewStats returns
\* nil: the caller gets an error outcome and no Stats, neither a partly
\* decoded one nor a fresh empty one.
C16_UndecodableIsNil ==
    (/\ last.op = "NewStats" /\ last.io = "ok"
     /\ disk.state \in {"empty", "truncated"}) => proc = "nil"

----------------------------------------------------------------------------
(* Claims about recording in the URL tracker *)

\* the times token w was recorded, over the messages of history h
CountIn(h, w) == SumOver(1..Len(h), [k \in 1..Len(h) |-> Occurrences(h[k], w)])

\* the URL tokens recorded at least once in history h
RecordedIn(h) ==
    { w \in UNION { Range(Split(h[k])) : k \in 1..Len(h) } : urlRegexMatches(w) }

\* the tracker's map holds exactly the recorded tokens, each with its count
CountsTrue(m, h) ==
    /\ DOMAIN m = RecordedIn(h)
    /\ \A w \in DOMAIN m : m[w] = CountIn(h, w)

\* C12: a token recorded k times in all (several times in one message
\* included) has count k and a token never recorded has no entry, in each of
\* two trackers by that tracker's own history alone; a recording step adds
\* the message's occurrences of each token to that token's count, leaves
\* every other token as it was, and leaves the other tracker untouched.
C12_RecordingCounts ==
    /\ [][/\ (u' # u => other' = other) /\ (other' # other => u' = u)
          /\ urlHist' # urlHist =>
               LET m == urlHist'[Len(urlHist')]
               IN  \A w \in DOMAIN u' :
                     u'[w] = urlsGet(u, w) + Occurrences(m, w)]_vars
    /\ [](CountsTrue(u, urlHist) /\ CountsTrue(other, otherHist))

\* "a.io" recorded three times, twice of them within one message, "b.io"
\* once, the word "hi" never; the second tracker has recorded only "b.io"
C12_Witness ==
    /\ <<97, 46, 105, 111>> \in DOMAIN u /\ u[<<97, 46, 105, 111>>] = 3
    /\ <<98, 46, 105, 111>> \in DOMAIN u /\ u[<<98, 46, 105, 111>>] = 1
    /\ <<104, 105>> \notin DOMAIN u
    /\ \E k \in 1..Len(urlHist) : urlHist[k] = <<97, 46, 105, 111, 32, 32, 97, 46, 105, 111>>
    /\ DOMAIN other = { <<98, 46, 105, 111>> }

----------------------------------------------------------------------------
(* Claims about the public lookups *)

\* C13 as stated: after an AddMessage with a non-empty channel, GetNetwork,
\* GetChannel and GetUser return the Network, Channel and User the message
\* was recorded against, for every letter casing of the network name, channel
\* name and nick; for a network name never seen they return nothing.
C13_LookupsConsistent ==
    /\ \A c \in { x \in Calls : x.channel # <<>> } :
         \A network \in { x \in NetNames : ToLower(x) = ToLower(c.network) },
            channel \in { x \in ChanNames : ToLower(x) = ToLower(c.channel) },
            hostmask \in { x \in Hosts : ToLower(Nick(x)) = ToLower(Nick(c.hostmask)) } :
              /\ GetNetwork(stats, network) \in NetworksNamed(c.network)
              /\ \A nid \in NetworksNamed(c.network) :
                   /\ GetChannel(stats, network, channel) \in ChannelsNamed(nid, c.channel)
                   /\ GetUser(stats, network, Nick(hostmask)) \in UsersNamed(nid, Nick(c.hostmask))
    /\ \A network \in NetNames :
         ToLower(network) \notin FoldedNetworks => GetNetwork(stats, network) = 0

----------------------------------------------------------------------------
(* Claims about kicks and actions *)

\* the calls of kind k that name the channel (in whatever letter case)
KindCalls(k, name) ==
    CallsWhere(LAMBDA c : c.kind = k /\ c.channel # <<>> /\ ToLower(c.channel) = ToLower(name))

ChannelTotal(field(_)) ==
    SumOver(DOMAIN stats.Channels, [id \in DOMAIN stats.Channels |-> field(stats.Channels[id])])

\* C14: after any sequence of AddMessage calls, each Channel's kick counter
\* is the number of Kick calls naming it and its action counter the number of
\* Action calls naming it; so a call of another kind moves neither, and a
\* Kick or Action with an empty channel name is counted in no channel.
C14_KicksAndActions ==
    /\ \A id \in DOMAIN stats.Channels :
         /\ stats.Channels[id].Kicks = KindCalls("Kick", stats.Channels[id].Name)
         /\ stats.Channels[id].Actions = KindCalls("Action", stats.Channels[id].Name)
    /\ ChannelTotal(LAMBDA c : c.Kicks)
         = CallsWhere(LAMBDA c : c.kind = "Kick" /\ c.channel # <<>>)
    /\ ChannelTotal(LAMBDA c : c.Actions)
         = CallsWhere(LAMBDA c : c.kind = "Action" /\ c.channel # <<>>)

\* a channel was kicked from and acted in, under two spellings of its name,
\* and a Kick came without a channel name
C14_Witness ==
    /\ \E id \in DOMAIN stats.Channels :
         stats.Channels[id].Kicks = 1 /\ stats.Channels[id].Actions = 1
    /\ \E c \in Calls : c.kind = "Kick" /\ c.channel = <<>>
    /\ \E c1, c2 \in Calls :
         c1.kind = "Kick" /\ c2.kind = "Action" /\ c1.channel # c2.channel
         /\ c1.channel # <<>> /\ ToLower(c1.channel) = ToLower(c2.channel)

----------------------------------------------------------------------------
(* Claims about networks as scopes *)

\* the networks that list id among ids(n), counted once per listing
Listings(ids(_), id) ==
    SumOver(DOMAIN stats.Networks,
            [nid \in DOMAIN stats.Networks |->
               Cardinality({ i \in 1..Len(ids(stats.Networks[nid])) :
                               ids(stats.Networks[nid])[i] = id })])

\* every Channel and User is registered once, in the network it names, and
\* the name indexes of a network lead only to its own channels and users
OneNetworkEach ==
    /\ \A id \in DOMAIN stats.Channels :
         /\ Listings(LAMBDA n : n.ChannelIDs, id) = 1
         /\ stats.Channels[id].NetworkID \in DOMAIN stats.Networks
         /\ id \in Range(stats.Networks[stats.Channels[id].NetworkID].ChannelIDs)
    /\ \A id \in DOMAIN stats.Users :
         /\ Listings(LAMBDA n : n.UserIDs, id) = 1
         /\ stats.Users[id].NetworkID \in DOMAIN stats.Networks
         /\ id \in Range(stats.Networks[stats.Users[id].NetworkID].UserIDs)
    /\ \A nid \in DOMAIN stats.Networks :
         /\ { stats.Networks[nid].channels[k] : k \in DOMAIN stats.Networks[nid].channels }
              = Range(stats.Networks[nid].ChannelIDs)
         /\ { stats.Networks[nid].users[k] : k \in DOMAIN stats.Networks[nid].users }
              = Range(stats.Networks[nid].UserIDs)

\* the networks other than the one the step's AddMessage names keep their
\* aggregates, and so do their channels and their users (with the
\* ChannelUsers inside them)
OtherNetworksKept ==
    hist' # hist =>
        \A nid \in DOMAIN stats.Networks :
            ToLower(stats.Networks[nid].Name) # ToLower(last'.network) =>
                /\ nid \in DOMAIN stats'.Networks
                /\ stats'.Networks[nid] = stats.Networks[nid]
                /\ \A id \in DOMAIN stats.Channels :
                     stats.Channels[id].NetworkID = nid =>
                        id \in DOMAIN stats'.Channels /\ stats'.Channels[id] = stats.Channels[id]
                /\ \A id \in DOMAIN stats.Users :
                     stats.Users[id].NetworkID = nid =>
                        id \in DOMAIN stats'.Users /\ stats'.Users[id] = stats.Users[id]

\* C15: a channel name or nick seen on two networks gives two Channels and
\* Users of distinct ids, each registered in exactly one network, and an
\* AddMessage on one network leaves the network aggregate, the channels and
\* the users of every other network unchanged.
C15_NetworksIsolated ==
    /\ []OneNetworkEach
    /\ [](\A c1, c2 \in Calls :
            ToLower(c1.network) # ToLower(c2.network) =>
              \A n1 \in NetworksNamed(c1.network), n2 \in NetworksNamed(c2.network) :
                /\ ChannelsNamed(n1, c1.channel) \cap ChannelsNamed(n2, c2.channel) = {}
                /\ UsersNamed(n1, Nick(c1.hostmask)) \cap UsersNamed(n2, Nick(c2.hostmask)) = {})
    /\ [][OtherNetworksKept]_vars

\* one channel name and one nick were seen on two networks, and there are
\* two channels and two users for them
C15_Witness ==
    /\ \E c1, c2 \in Calls :
         /\ ToLower(c1.network) # ToLower(c2.network)
         /\ c1.channel # <<>> /\ ToLower(c1.channel) = ToLower(c2.channel)
         /\ ToLower(Nick(c1.hostmask)) = ToLower(Nick(c2.hostmask))
    /\ \E i, j \in DOMAIN stats.Channels :
         i # j /\ ToLower(stats.Channels[i].Name) = ToLower(stats.Channels[j].Name)
    /\ \E i, j \in DOMAIN stats.Users :
         i # j /\ ToLower(stats.Users[i].Nick) = ToLower(stats.Users[j].Nick)

----------------------------------------------------------------------------
(* Claims about the all-caps counter *)

\* the message has an uppercase ASCII letter and no lowercase one
IsAllCaps(message) ==
    /\ \E i \in 1..Len(message) : message[i] \in 65..90
    /\ \A i \in 1..Len(message) : message[i] \notin 97..122

\* C17 as stated: each AllCapsCount.addMessage adds exactly one to the
\* counter if the message has at least one letter of A..Z and no letter of
\* a..z, and leaves the counter as it was otherwise.
C17_AllCapsIff ==
    caps.count = IF IsAllCaps(caps.msg) THEN caps.calls ELSE 0

====
